---- MODULE Spec2Model ----
(***************************************************************************)
(* A model of keras_nlp.models.task.Task: preset resolution (from_preset), *)
(* preset enumeration (presets), the loss/activation check of compile,     *)
(* preprocess_samples and get_config/from_config.                          *)
(*                                                                         *)
(* Python values are modelled as tagged records: None is [kind |-> "None"],*)
(* a layer object is [kind |-> "layer", ...], a serialized layer is        *)
(* [kind |-> "dict", ...], a task instance is [kind |-> "task", ...].      *)
(* An optional keyword argument is <<>> when the key is absent and <<v>>   *)
(* when it is present with value v (v may be None).                        *)
(***************************************************************************)
EXTENDS Integers, Sequences, FiniteSets, TLC

(***************************************************************************)
(* Bounds of the model.                                                    *)
(***************************************************************************)
\* the raw inputs, labels and sample weights range over 1..MaxSample
MaxSample == 2
\* preprocessors differ by a sequence_length in 1..MaxSeqLen
MaxSeqLen == 2
\* at most MaxAssignments assignments to the preprocessor of one instance
MaxAssignments == 2

(***************************************************************************)
(* Python values.                                                          *)
(***************************************************************************)
NoneObj == [kind |-> "None"]

Opt(S) == {<<>>} \cup {<<v>> : v \in S}

Range(s) == {s[i] : i \in 1..Len(s)}

(***************************************************************************)
(* The class universe: Task, a task base class and five model classes, one *)
(* of them a user subclass of a model class and one overriding the         *)
(* backbone_cls it inherits.                                               *)
(***************************************************************************)
TaskClasses ==
    {"Task", "Classifier", "BertClassifier", "MyBertClassifier",
     "RobertaClassifier", "XLMRobertaClassifier", "GPT2CausalLM"}

BackboneClasses ==
    {"BertBackbone", "RobertaBackbone", "XLMRobertaBackbone", "GPT2Backbone"}

\* classes that are neither a Task nor a Backbone
OtherClasses == {"BertTokenizer"}

\* the classes registered as custom objects once the library is imported
LibraryClasses ==
    {"Task", "Classifier", "BertClassifier", "RobertaClassifier",
     "GPT2CausalLM"}

\* the classes whose modules register them when they are imported later
LateClasses == {"MyBertClassifier", "XLMRobertaClassifier"}

\* the order in which the custom objects are enumerated
ClassOrder ==
    <<"Task", "Classifier", "BertClassifier", "MyBertClassifier",
      "RobertaClassifier", "XLMRobertaClassifier", "GPT2CausalLM">>

\* the direct base class of a class
Parent(c) ==
    CASE c = "Classifier" -> "Task"
      [] c = "BertClassifier" -> "Classifier"
      [] c = "MyBertClassifier" -> "BertClassifier"
      [] c = "RobertaClassifier" -> "Classifier"
      [] c = "XLMRobertaClassifier" -> "RobertaClassifier"
      [] c = "GPT2CausalLM" -> "Task"
      [] c \in BackboneClasses -> "Backbone"
      [] OTHER -> "object"

RECURSIVE IsSubclass(_, _)
\* issubclass(a, b): reflexive and transitive
IsSubclass(a, b) ==
    IF a = b THEN TRUE
    ELSE IF a = "object" THEN FALSE
    ELSE IsSubclass(Parent(a), b)

\* the class attribute backbone_cls, "None" when unset (inherited otherwise)
backbone_cls(c) ==
    CASE c \in {"BertClassifier", "MyBertClassifier"} -> "BertBackbone"
      [] c = "RobertaClassifier" -> "RobertaBackbone"
      [] c = "XLMRobertaClassifier" -> "XLMRobertaBackbone"
      [] c = "GPT2CausalLM" -> "GPT2Backbone"
      [] OTHER -> "None"

\* the class attribute preprocessor_cls, "None" when unset
preprocessor_cls(c) ==
    CASE c \in {"BertClassifier", "MyBertClassifier"} -> "BertPreprocessor"
      [] c = "RobertaClassifier" -> "RobertaPreprocessor"
      [] c = "XLMRobertaClassifier" -> "XLMRobertaPreprocessor"
      [] c = "GPT2CausalLM" -> "GPT2CausalLMPreprocessor"
      [] OTHER -> "None"

\* classifiers store an `activation` attribute, causal LMs do not
HasActivation(c) == IsSubclass(c, "Classifier")

(***************************************************************************)
(* Python dicts, as sequences of <<key, value>> pairs in insertion order.  *)
(***************************************************************************)
Keys(d) == {d[i][1] : i \in 1..Len(d)}

\* d[k] = v
DictSet(d, k, v) ==
    IF k \in Keys(d)
    THEN [i \in 1..Len(d) |-> IF d[i][1] = k THEN <<k, v>> ELSE d[i]]
    ELSE Append(d, <<k, v>>)

RECURSIVE DictUpdate(_, _)
\* d.update(e)
DictUpdate(d, e) ==
    IF e = <<>> THEN d
    ELSE DictUpdate(DictSet(d, e[1][1], e[1][2]), Tail(e))

(***************************************************************************)
(* Presets and the preset utilities.                                       *)
(***************************************************************************)
PresetIds ==
    {"bert_base_en", "xlm_roberta_base", "gpt2_base_en",
     "./bert_sst2", "./my_bert", "./vocab"}

\* check_config_class(preset): the class the preset's config.json declares
check_config_class(preset) ==
    CASE preset = "bert_base_en" -> "BertBackbone"
      [] preset = "roberta_base_en" -> "RobertaBackbone"
      [] preset = "xlm_roberta_base" -> "XLMRobertaBackbone"
      [] preset = "gpt2_base_en" -> "GPT2Backbone"
      [] preset = "./bert_sst2" -> "BertClassifier"
      [] preset = "./my_bert" -> "MyBertClassifier"
      [] OTHER -> "BertTokenizer"

\* list_presets(cls): the built-in presets declared directly on a class
list_presets(c) ==
    CASE c = "BertBackbone" ->
            << <<"bert_tiny_en", "BertBackbone">>,
               <<"bert_base_en", "BertBackbone">> >>
      [] c = "RobertaBackbone" -> << <<"roberta_base_en", "RobertaBackbone">> >>
      [] c = "XLMRobertaBackbone" ->
            << <<"xlm_roberta_base", "XLMRobertaBackbone">> >>
      [] c = "GPT2Backbone" -> << <<"gpt2_base_en", "GPT2Backbone">> >>
      [] c = "BertClassifier" ->
            << <<"bert_tiny_en_sst2", "BertClassifier">>,
               <<"bert_tiny_en", "BertClassifier">> >>
      [] c = "MyBertClassifier" -> << <<"my_bert_en", "MyBertClassifier">> >>
      [] c = "XLMRobertaClassifier" ->
            << <<"roberta_base_en", "XLMRobertaClassifier">> >>
      [] OTHER -> <<>>

\* list_subclasses(cls): the registered classes that are strict subclasses
list_subclasses(c, reg) ==
    SelectSeq(ClassOrder, LAMBDA x : x \in reg /\ x # c /\ IsSubclass(x, c))

\* Backbone.presets
BackbonePresets(b) == list_presets(b)

RECURSIVE presets(_, _)
RECURSIVE UpdateFromSubclasses(_, _, _)
\* the loop `for subclass in list_subclasses(cls): presets.update(...)`
UpdateFromSubclasses(d, subs, reg) ==
    IF subs = <<>> THEN d
    ELSE UpdateFromSubclasses(DictUpdate(d, presets(subs[1], reg)), Tail(subs), reg)

\* a presets that forgets the presets of the backbone class
presets_NoBackbone(c, reg) ==
    UpdateFromSubclasses(list_presets(c), list_subclasses(c, reg), reg)

\* Task.presets
presets(c, reg) ==
    LET own == list_presets(c)
        withBackbone == IF backbone_cls(c) # "None"
                        THEN DictUpdate(own, BackbonePresets(backbone_cls(c)))
                        ELSE own
    IN UpdateFromSubclasses(withBackbone, list_subclasses(c, reg), reg)

(***************************************************************************)
(* Objects: tokenizers, preprocessors, backbones and task instances.       *)
(***************************************************************************)
Layer(c, cfg, w) == [kind |-> "layer", cls |-> c, config |-> cfg, weights |-> w]

Tokenizer(vocab) == Layer("Tokenizer", [vocabulary |-> vocab], "none")

\* preprocessor_cls(tokenizer=tokenizer, sequence_length=n)
Preprocessor(c, tokenizer, n) ==
    Layer(c, [tokenizer |-> tokenizer, sequence_length |-> n], "none")

\* the preprocessors a caller builds by hand
UserPreprocessors ==
    {Preprocessor("UserPreprocessor", Tokenizer("user_vocab"), n) :
        n \in 1..MaxSeqLen}

Backbone(c, preset, dtype, w) ==
    Layer(c, [preset |-> preset, dtype |-> dtype], w)

\* a backbone a caller builds by hand
UserBackbone(b) == Backbone(b, "user_config", "float32", "random")

\* the outcome of a call: a returned value or a raised error, with the
\* load_from_preset calls the call made
Return(v, loads) ==
    [status |-> "return", error |-> "", detail |-> <<>>, value |-> v,
     loads |-> loads]

Raise(err, detail) ==
    [status |-> "raise", error |-> err, detail |-> detail, value |-> NoneObj,
     loads |-> <<>>]

\* cls(backbone=..., preprocessor=..., name=..., activation=...): the
\* constructor of a task class followed by Task.__init__
TaskNew(c, backbone, preprocessor, name, activation) ==
    [kind |-> "task",
     cls |-> c,
     backbone |-> backbone,
     preprocessor |-> preprocessor,
     name |-> IF name = <<>> THEN c ELSE name[1],
     activation |-> IF HasActivation(c)
                    THEN (IF activation = <<>> THEN <<"None">> ELSE activation)
                    ELSE <<>>,
     dtype_policy |-> IF backbone.kind = "layer" /\ "dtype" \in DOMAIN backbone.config
                      THEN backbone.config.dtype ELSE "float32",
     compiled |-> <<>>]

\* load_from_preset(preset, load_weights=..., config_overrides=...) of a
\* preset that declares a backbone class
LoadBackbone(preset, load_weights, config_overrides) ==
    Backbone(check_config_class(preset), preset,
             IF config_overrides.dtype # <<>> THEN config_overrides.dtype[1]
             ELSE "float32",
             IF load_weights THEN preset ELSE "random")

\* load_from_preset(preset, config_file="tokenizer.json")
LoadTokenizer(preset) == Tokenizer(preset)

\* load_from_preset(preset, load_weights=..., config_overrides=kwargs) of a
\* preset that declares a task class
LoadTask(preset, load_weights, config_overrides) ==
    LET c == check_config_class(preset)
        bb == Backbone(backbone_cls(c), preset,
                       "float32", IF load_weights THEN preset ELSE "random")
        pp == IF config_overrides.preprocessor # <<>>
              THEN config_overrides.preprocessor[1]
              ELSE Preprocessor(preprocessor_cls(c), Tokenizer(preset), MaxSeqLen)
    IN TaskNew(c, bb, pp, config_overrides.name, <<>>)

(***************************************************************************)
(* Task.from_preset                                                        *)
(***************************************************************************)
\* the keyword arguments of from_preset
Kwargs ==
    [backbone : Opt({UserBackbone("BertBackbone")}),
     preprocessor : Opt({NoneObj,
                         Preprocessor("UserPreprocessor", Tokenizer("user_vocab"), 1)}),
     dtype : Opt({"bfloat16"}),
     name : Opt({"my_task"})]

\* a check that lets the abstract base class through
IsBaseCall_Never(c) == FALSE

\* `if cls == Task`
IsBaseCall(c) == c = "Task"

\* a check that never sees the backbone argument
HasBackboneArg_Never(kwargs) == FALSE

\* `if "backbone" in kwargs`
HasBackboneArg(kwargs) == kwargs.backbone # <<>>

\* the registered subclasses whose backbone_cls is the preset's class
MatchingSubclasses(c, preset_cls, reg) ==
    SelectSeq(list_subclasses(c, reg), LAMBDA x : backbone_cls(x) = preset_cls)

\* a resolution that takes the first of several matching subclasses
ResolutionError_FirstMatch(c, preset_cls, reg) ==
    IF preset_cls # backbone_cls(c) /\ MatchingSubclasses(c, preset_cls, reg) = <<>>
    THEN "No registered subclass"
    ELSE ""

\* the two errors of the subclass search, "" when it finds exactly one class
\* or is not needed
ResolutionError(c, preset_cls, reg) ==
    IF preset_cls # backbone_cls(c)
    THEN LET subclasses == MatchingSubclasses(c, preset_cls, reg)
         IN IF Len(subclasses) = 0 THEN "No registered subclass"
            ELSE IF Len(subclasses) > 1 THEN "Ambiguous call"
            ELSE ""
    ELSE ""

\* a resolution that forgets `cls = subclasses[0]`
EffectiveClass_Calling(c, preset_cls, reg) == c

\* the class that is instantiated in the backbone case
EffectiveClass(c, preset_cls, reg) ==
    IF preset_cls # backbone_cls(c)
    THEN MatchingSubclasses(c, preset_cls, reg)[1]
    ELSE c

\* a task-case check with the subclass test reversed
TaskCaseMismatch_Reversed(preset_cls, c) == ~IsSubclass(c, preset_cls)

\* `if not issubclass(preset_cls, cls)`
TaskCaseMismatch(preset_cls, c) == ~IsSubclass(preset_cls, c)

\* a backbone case that loads the tokenizer of the preset whatever the
\* caller passes as `preprocessor`
BackboneCase_IgnoresArgument(c, preset, load_weights, kwargs) ==
    LET backbone == LoadBackbone(preset, load_weights, [dtype |-> kwargs.dtype])
    IN Return(TaskNew(c, backbone,
                      Preprocessor(preprocessor_cls(c), LoadTokenizer(preset),
                                   MaxSeqLen),
                      kwargs.name, <<>>),
              <<[preset |-> preset, config_file |-> "config.json"],
                [preset |-> preset, config_file |-> "tokenizer.json"]>>)

\* the backbone case, after the class is resolved
BackboneCase(c, preset, load_weights, kwargs) ==
    LET config_overrides == [dtype |-> kwargs.dtype]
        backbone == LoadBackbone(preset, load_weights, config_overrides)
        loadsTokenizer == kwargs.preprocessor = <<>>
        loads == <<[preset |-> preset, config_file |-> "config.json"]>> \o
                 (IF loadsTokenizer
                  THEN <<[preset |-> preset, config_file |-> "tokenizer.json"]>>
                  ELSE <<>>)
    IN IF loadsTokenizer /\ preprocessor_cls(c) = "None"
       THEN Raise("TypeError", <<"NoneType is not callable">>)
       ELSE Return(TaskNew(c, backbone,
                           IF loadsTokenizer
                           THEN Preprocessor(preprocessor_cls(c),
                                             LoadTokenizer(preset), MaxSeqLen)
                           ELSE kwargs.preprocessor[1],
                           kwargs.name, <<>>),
                   loads)

from_preset(c, preset, load_weights, kwargs, reg) ==
    IF IsBaseCall(c)
    THEN Raise("Do not call Task.from_preset() directly", <<>>)
    ELSE IF HasBackboneArg(kwargs)
    THEN Raise("You cannot pass a backbone argument", <<c, kwargs.backbone[1]>>)
    ELSE LET preset_cls == check_config_class(preset)
         IN IF IsSubclass(preset_cls, "Backbone")
            THEN IF ResolutionError(c, preset_cls, reg) = "No registered subclass"
                 THEN Raise("No registered subclass", <<c, preset_cls>>)
                 ELSE IF ResolutionError(c, preset_cls, reg) = "Ambiguous call"
                 THEN Raise("Ambiguous call",
                            <<c>> \o MatchingSubclasses(c, preset_cls, reg))
                 ELSE BackboneCase(EffectiveClass(c, preset_cls, reg), preset,
                                   load_weights, kwargs)
            ELSE IF TaskCaseMismatch(preset_cls, c)
                 THEN Raise("Preset type is not a subclass", <<preset_cls, c>>)
                 ELSE Return(LoadTask(preset, load_weights, kwargs),
                             <<[preset |-> preset, config_file |-> "config.json"]>>)

(***************************************************************************)
(* compile and its loss/activation check.                                  *)
(***************************************************************************)
SparseCategoricalCrossentropy(from_logits) ==
    [kind |-> "SparseCategoricalCrossentropy", from_logits |-> from_logits]

LossName(name) == [kind |-> "str", name |-> name]

LossFunction(name) == [kind |-> "function", name |-> name]

Composite(kind, items) == [kind |-> kind, items |-> items]

\* the values passed as `loss`: None (the default), a loss object, the name of
\* a loss function, and a list, dict or tuple of loss objects
Losses ==
    {NoneObj, LossName("sparse_categorical_crossentropy"),
     LossName("mean_squared_error")}
    \cup {SparseCategoricalCrossentropy(b) : b \in BOOLEAN}
    \cup {Composite(k, <<SparseCategoricalCrossentropy(b)>>) :
            k \in {"list", "dict", "tuple"}, b \in BOOLEAN}

\* the values passed as `activation` to a classifier
Activations == {"None", "softmax", "sigmoid"}

\* keras.losses.get(loss)
losses_get(loss) ==
    IF loss.kind = "str" THEN LossFunction(loss.name) ELSE loss

\* keras.activations.get(activation)
activations_get(activation) ==
    IF activation = "None" THEN "linear" ELSE activation

\* a comparison that lost the `not` of `not from_logits`
Mismatch_LostNot(activation, from_logits) ==
    IF activation = "softmax" /\ from_logits
    THEN "loss expects logit output"
    ELSE IF activation = "linear" /\ from_logits
    THEN "loss expects softmax probability output"
    ELSE ""

\* the two ValueErrors of the check, "" when the loss fits the activation
Mismatch(activation, from_logits) ==
    LET softmax_output == activation = "softmax"
        logit_output == activation = "linear"
    IN IF softmax_output /\ from_logits
       THEN "loss expects logit output"
       ELSE IF logit_output /\ ~from_logits
       THEN "loss expects softmax probability output"
       ELSE ""

\* `isinstance(loss, (dict, list, tuple))`
IsComposite(loss) == loss.kind \in {"dict", "list", "tuple"}

\* a check that looks into a composite loss and takes a task without an
\* activation for one with linear output
check_for_loss_mismatch_NoSkips(t, loss) ==
    LET single == IF IsComposite(loss) THEN loss.items[1] ELSE loss
        l == losses_get(single)
        activation == IF t.activation = <<>> THEN "linear"
                      ELSE activations_get(t.activation[1])
    IN IF l.kind = "SparseCategoricalCrossentropy"
       THEN Mismatch(activation, l.from_logits)
       ELSE IF l = LossFunction("sparse_categorical_crossentropy")
       THEN Mismatch(activation, FALSE)
       ELSE ""

\* Task._check_for_loss_mismatch: the error it raises, "" when it returns
check_for_loss_mismatch(t, loss) ==
    IF IsComposite(loss) THEN ""
    ELSE IF t.activation = <<>> THEN ""
    ELSE LET l == losses_get(loss)
             activation == activations_get(t.activation[1])
         IN IF l.kind = "SparseCategoricalCrossentropy"
            THEN Mismatch(activation, l.from_logits)
            ELSE IF l = LossFunction("sparse_categorical_crossentropy")
            THEN Mismatch(activation, FALSE)
            ELSE ""

\* Task.compile: the outcome and the task after the call; jit_compile is the
\* keyword argument, <<>> when it is not passed
compile(t, loss, jit_compile, be) ==
    LET kwargs == [jit_compile |-> IF be = "torch" THEN <<FALSE>>
                                   ELSE jit_compile]
        err == check_for_loss_mismatch(t, loss)
    IN IF err # ""
       THEN [outcome |-> Raise(err, <<>>), task |-> t]
       ELSE [outcome |-> Return(NoneObj, <<>>),
             task |-> [t EXCEPT !.compiled =
                          <<[optimizer |-> "rmsprop", loss |-> loss,
                             kwargs |-> kwargs]>>]]

(***************************************************************************)
(* preprocess_samples and the preprocessor property.                       *)
(***************************************************************************)
\* a raw input
RawInput(n) == [text |-> n]

\* preprocessor(x, y=y, sample_weight=sample_weight)
CallPreprocessor(p, x, y, sample_weight) ==
    <<[token_ids |-> x.text,
       padded_to |-> p.config.sequence_length,
       vocabulary |-> p.config.tokenizer.config.vocabulary],
      y, sample_weight>>

\* PipelineModel.preprocess_samples
PipelinePreprocessSamples(x, y, sample_weight) == <<x, y, sample_weight>>

\* a preprocess_samples that never calls the preprocessor
preprocess_samples_PassThrough(t, x, y, sample_weight) ==
    PipelinePreprocessSamples(x, y, sample_weight)

\* Task.preprocess_samples
preprocess_samples(t, x, y, sample_weight) ==
    IF t.preprocessor # NoneObj
    THEN CallPreprocessor(t.preprocessor, x, y, sample_weight)
    ELSE PipelinePreprocessSamples(x, y, sample_weight)

\* the setter of the preprocessor property
set_preprocessor(t, value) == [t EXCEPT !.preprocessor = value]

(***************************************************************************)
(* get_config and from_config.                                             *)
(***************************************************************************)
\* keras.layers.serialize(layer)
serialize(layer) ==
    IF layer = NoneObj THEN NoneObj
    ELSE [kind |-> "dict", class_name |-> layer.cls, config |-> layer.config]

\* keras.layers.deserialize(config): a new layer, its weights not restored
deserialize(config) == Layer(config.class_name, config.config, "random")

\* Task.get_config
get_config(t) ==
    [backbone |-> serialize(t.backbone),
     preprocessor |-> serialize(t.preprocessor),
     name |-> t.name]

\* the config dict after from_config has replaced the nested configs
ConfigDeserialized(config) ==
    [config EXCEPT
        !.backbone = IF config.backbone.kind = "dict"
                     THEN deserialize(config.backbone) ELSE config.backbone,
        !.preprocessor = IF config.preprocessor.kind = "dict"
                         THEN deserialize(config.preprocessor)
                         ELSE config.preprocessor]

\* a from_config that leaves it to the default of functional models, which
\* builds a plain keras.Model from the config
from_config_Default(c, config) ==
    [kind |-> "task", cls |-> "Model", backbone |-> config.backbone,
     preprocessor |-> config.preprocessor, name |-> config.name,
     activation |-> <<>>, dtype_policy |-> "float32", compiled |-> <<>>]

\* Task.from_config
from_config(c, config) ==
    LET cfg == ConfigDeserialized(config)
    IN TaskNew(c, cfg.backbone, cfg.preprocessor, <<cfg.name>>, <<>>)

\* the values of config.backend()
Backends == {"tensorflow", "torch"}

(***************************************************************************)
(* State.                                                                  *)
(***************************************************************************)
VARIABLES
    registered,   \* the task classes among the registered custom objects
    task,         \* the task instance at hand, None before one is built
    result,       \* the last call: its name, arguments and outcome
    assignments   \* the assignments to task.preprocessor since task was built

vars == <<registered, task, result, assignments>>

Call(op, args, outcome) ==
    [op |-> op, args |-> args, status |-> outcome.status,
     error |-> outcome.error, detail |-> outcome.detail,
     value |-> outcome.value, loads |-> outcome.loads]

Init ==
    /\ registered = LibraryClasses
    /\ task = NoneObj
    /\ result = Call("init", <<>>, Return(NoneObj, <<>>))
    /\ assignments = 0

\* importing a model class registers it
Register(c) ==
    /\ c \notin registered
    /\ registered' = registered \cup {c}
    /\ result' = Call("register", [cls |-> c], Return(NoneObj, <<>>))
    /\ UNCHANGED <<task, assignments>>

\* cls.from_preset(preset, load_weights=..., **kwargs): a class method, the
\* instance it returns is the value of the call
FromPreset(c, preset, load_weights, kwargs) ==
    LET outcome == from_preset(c, preset, load_weights, kwargs, registered)
    IN /\ result' = Call("from_preset",
                         [cls |-> c, preset |-> preset,
                          load_weights |-> load_weights, kwargs |-> kwargs],
                         outcome)
       /\ UNCHANGED <<registered, task, assignments>>

\* cls.presets
Presets(c) ==
    /\ result' = Call("presets", [cls |-> c],
                      Return(presets(c, registered), <<>>))
    /\ UNCHANGED <<registered, task, assignments>>

NextPreset ==
    \/ \E c \in LateClasses : Register(c)
    \/ \E c \in TaskClasses, preset \in PresetIds, load_weights \in BOOLEAN,
          kwargs \in Kwargs : FromPreset(c, preset, load_weights, kwargs)
    \/ \E c \in TaskClasses : Presets(c)

SpecPreset == Init /\ [][NextPreset]_vars

\* the classes instances are built of
InstanceClasses == {"BertClassifier", "XLMRobertaClassifier", "GPT2CausalLM"}

Names == {"classifier", "my_task"}

\* cls(backbone, preprocessor=..., activation=..., name=...)
Construct(c, preprocessor, activation, name) ==
    /\ task' = TaskNew(c, UserBackbone(backbone_cls(c)), preprocessor,
                       <<name>>, <<activation>>)
    /\ result' = Call("construct",
                      [cls |-> c, preprocessor |-> preprocessor,
                       activation |-> activation, name |-> name],
                      Return(task', <<>>))
    /\ assignments' = 0
    /\ UNCHANGED registered

\* task.compile(loss=loss, jit_compile=...), where config.backend() is be
Compile(loss, jit_compile, be) ==
    /\ task.kind = "task"
    /\ task' = compile(task, loss, jit_compile, be).task
    /\ result' = Call("compile",
                      [loss |-> loss, jit_compile |-> jit_compile,
                       backend |-> be],
                      compile(task, loss, jit_compile, be).outcome)
    /\ UNCHANGED <<registered, assignments>>

\* task.preprocessor = value
SetPreprocessor(value) ==
    /\ task.kind = "task"
    /\ assignments < MaxAssignments
    /\ task' = set_preprocessor(task, value)
    /\ result' = Call("set_preprocessor", [value |-> value],
                      Return(NoneObj, <<>>))
    /\ assignments' = assignments + 1
    /\ UNCHANGED registered

\* task.preprocess_samples(x, y, sample_weight)
PreprocessSamples(x, y, sample_weight) ==
    /\ task.kind = "task"
    /\ result' = Call("preprocess_samples",
                      [x |-> x, y |-> y, sample_weight |-> sample_weight],
                      Return(preprocess_samples(task, x, y, sample_weight), <<>>))
    /\ UNCHANGED <<registered, task, assignments>>

\* task.get_config()
GetConfig ==
    /\ task.kind = "task"
    /\ result' = Call("get_config", <<>>, Return(get_config(task), <<>>))
    /\ UNCHANGED <<registered, task, assignments>>

\* cls.from_config(config), with the config get_config has just returned; the
\* detail of the call is the config dict as from_config leaves it
FromConfig(c) ==
    /\ result.op = "get_config"
    /\ result' = [Call("from_config", [cls |-> c, config |-> result.value],
                       Return(from_config(c, result.value), <<>>))
                  EXCEPT !.detail = <<ConfigDeserialized(result.value)>>]
    /\ UNCHANGED <<registered, task, assignments>>

NextTask ==
    \/ \E c \in InstanceClasses, p \in {NoneObj} \cup UserPreprocessors,
          a \in Activations, n \in Names : Construct(c, p, a, n)
    \/ \E loss \in Losses, jit_compile \in Opt({TRUE}), be \in Backends :
          Compile(loss, jit_compile, be)
    \/ \E value \in {NoneObj} \cup UserPreprocessors : SetPreprocessor(value)
    \/ \E x \in {RawInput(n) : n \in 1..MaxSample}, y \in Opt(1..MaxSample),
          sample_weight \in Opt(1..MaxSample) :
          PreprocessSamples(x, y, sample_weight)
    \/ GetConfig
    \/ \E c \in InstanceClasses : FromConfig(c)

SpecTask == Init /\ [][NextTask]_vars

Next == NextPreset \/ NextTask

Spec == Init /\ [][Next]_vars

(***************************************************************************)
(* Properties of from_preset and presets, checked under SpecPreset.        *)
(***************************************************************************)
\* the known subclasses of a class: registered, strict
KnownSubclasses(c) == {x \in registered : x # c /\ IsSubclass(x, c)}

\* the known subclasses of c that expect a backbone of class b
Qualifying(c, b) == {x \in KnownSubclasses(c) : backbone_cls(x) = b}

\* the last call is from_preset on c, with a preset of a backbone class that is
\* not the backbone class of c
BackboneMismatchCall ==
    /\ result.op = "from_preset"
    /\ check_config_class(result.args.preset) \in BackboneClasses
    /\ check_config_class(result.args.preset) # backbone_cls(result.args.cls)

\* the last call passed the two argument checks of from_preset
PassedArgumentChecks ==
    /\ result.args.cls # "Task"
    /\ result.args.kwargs.backbone = <<>>

ReturnsInstanceOf(c) ==
    /\ result.status = "return"
    /\ result.value.kind = "task"
    /\ result.value.cls = c

\* C1 as stated: from_preset on any class C, with a backbone preset of a class
\* B that is not C.backbone_cls and exactly one known subclass S of C with
\* S.backbone_cls = B, returns an instance of S.
C1_AnyCallReturnsSubclass ==
    BackboneMismatchCall =>
        LET q == Qualifying(result.args.cls, check_config_class(result.args.preset))
        IN Cardinality(q) = 1 => \E x \in q : ReturnsInstanceOf(x)

\* C1 amended: the same, for a class C other than Task and a call without a
\* `backbone` keyword argument; the instance is of S, not of C.
C1_ResolvedCallReturnsSubclass ==
    (BackboneMismatchCall /\ PassedArgumentChecks) =>
        LET q == Qualifying(result.args.cls, check_config_class(result.args.preset))
        IN Cardinality(q) = 1 =>
              \E x \in q : ReturnsInstanceOf(x) /\ x # result.args.cls

\* C1 witness: RobertaClassifier.from_preset("xlm_roberta_base") found the one
\* registered subclass and returned an instance of it.
C1_Witness ==
    /\ BackboneMismatchCall
    /\ PassedArgumentChecks
    /\ result.args.cls = "RobertaClassifier"
    /\ Cardinality(Qualifying("RobertaClassifier", "XLMRobertaBackbone")) = 1
    /\ ReturnsInstanceOf("XLMRobertaClassifier")

Raises(err) == result.status = "raise" /\ result.error = err

\* C2 as stated: from_preset on any class C, with a backbone preset of a class
\* B that is not C.backbone_cls, raises the resolution error when no known
\* subclass of C expects B and the ambiguity error when more than one does.
C2_AnyCallRaisesResolutionError ==
    BackboneMismatchCall =>
        LET n == Cardinality(Qualifying(result.args.cls,
                                        check_config_class(result.args.preset)))
        IN /\ n = 0 => Raises("No registered subclass")
           /\ n > 1 => Raises("Ambiguous call")

\* C2 amended: the same, for a class C other than Task and a call without a
\* `backbone` keyword argument; the ambiguity error lists the candidates and
\* no instance is returned.
C2_ResolvedCallRaisesResolutionError ==
    (BackboneMismatchCall /\ PassedArgumentChecks) =>
        LET q == Qualifying(result.args.cls, check_config_class(result.args.preset))
        IN /\ Cardinality(q) = 0 =>
                Raises("No registered subclass") /\ result.value = NoneObj
           /\ Cardinality(q) > 1 =>
                /\ Raises("Ambiguous call")
                /\ Range(Tail(result.detail)) = q
                /\ result.value = NoneObj

\* C2 witness: Classifier.from_preset("bert_base_en") with BertClassifier and
\* MyBertClassifier both registered raised the ambiguity error.
C2_Witness ==
    /\ BackboneMismatchCall
    /\ PassedArgumentChecks
    /\ result.args.cls = "Classifier"
    /\ Cardinality(Qualifying("Classifier", "BertBackbone")) = 2
    /\ Raises("Ambiguous call")

\* C2 witness of the other error: no registered subclass of Classifier loads a
\* GPT2Backbone.
C2_WitnessNoSubclass ==
    /\ BackboneMismatchCall
    /\ PassedArgumentChecks
    /\ Qualifying(result.args.cls, check_config_class(result.args.preset)) = {}
    /\ Raises("No registered subclass")

\* C3: from_preset called on Task itself raises the direct-call usage error,
\* for every preset and every combination of keyword arguments.
C3_DirectCallRaises ==
    (result.op = "from_preset" /\ result.args.cls = "Task") =>
        Raises("Do not call Task.from_preset() directly") /\ result.value = NoneObj

\* C3 witness: Task.from_preset raised although the preset is a task preset, a
\* subclass of Task, and a backbone argument was passed too.
C3_Witness ==
    /\ result.op = "from_preset"
    /\ result.args.cls = "Task"
    /\ check_config_class(result.args.preset) \in TaskClasses
    /\ result.args.kwargs.backbone # <<>>
    /\ Raises("Do not call Task.from_preset() directly")

\* C4: from_preset called on a Task subclass with a `backbone` keyword argument
\* raises the backbone-argument usage error, whatever the preset declares.
C4_BackboneArgumentRaises ==
    (/\ result.op = "from_preset"
     /\ result.args.cls # "Task"
     /\ result.args.kwargs.backbone # <<>>) =>
        /\ Raises("You cannot pass a backbone argument")
        /\ result.value = NoneObj

\* C4 witness: BertClassifier.from_preset("bert_base_en", backbone=...) raised
\* although the preset is one the class loads.
C4_Witness ==
    /\ result.op = "from_preset"
    /\ result.args.cls = "BertClassifier"
    /\ result.args.preset = "bert_base_en"
    /\ result.args.kwargs.backbone # <<>>
    /\ Raises("You cannot pass a backbone argument")

\* the last call is from_preset with a preset whose class is not a backbone
NonBackboneCall ==
    /\ result.op = "from_preset"
    /\ check_config_class(result.args.preset) \notin BackboneClasses

\* the strict and non-strict base classes of a class
Bases(c) ==
    {b \in TaskClasses \cup BackboneClasses \cup OtherClasses
           \cup {"Backbone", "object"} : IsSubclass(c, b)}

\* C5 as stated: with a preset whose class is not a backbone, from_preset on
\* any class C raises the type-mismatch error whenever the preset's class is
\* not C or a subclass of C, and returns the loaded object when it is.
C5_AnyCallChecksPresetType ==
    NonBackboneCall =>
        LET preset_cls == check_config_class(result.args.preset)
        IN IF result.args.cls \in Bases(preset_cls)
           THEN ReturnsInstanceOf(preset_cls)
           ELSE Raises("Preset type is not a subclass")

\* C5 amended: the same, for a class C other than Task and a call without a
\* `backbone` keyword argument; the error names the preset's class.
C5_ResolvedCallChecksPresetType ==
    (NonBackboneCall /\ PassedArgumentChecks) =>
        LET preset_cls == check_config_class(result.args.preset)
        IN IF result.args.cls \in Bases(preset_cls)
           THEN ReturnsInstanceOf(preset_cls)
           ELSE /\ Raises("Preset type is not a subclass")
                /\ result.detail[1] = preset_cls
                /\ result.value = NoneObj

\* C5 witness: MyBertClassifier.from_preset("./bert_sst2") raised, the preset's
\* BertClassifier being a base class of the caller and not a subclass.
C5_Witness ==
    /\ NonBackboneCall
    /\ PassedArgumentChecks
    /\ result.args.cls = "MyBertClassifier"
    /\ result.args.preset = "./bert_sst2"
    /\ Raises("Preset type is not a subclass")
    /\ result.detail[1] = "BertClassifier"

\* C5 witness of the other branch: Classifier.from_preset("./my_bert")
\* returned the MyBertClassifier the preset declares.
C5_WitnessReturns ==
    /\ NonBackboneCall
    /\ PassedArgumentChecks
    /\ result.args.cls = "Classifier"
    /\ ReturnsInstanceOf("MyBertClassifier")

\* the keys of the presets of a class and of its backbone class
DeclaredKeys(c) ==
    Keys(list_presets(c)) \cup
    (IF backbone_cls(c) # "None" THEN Keys(BackbonePresets(backbone_cls(c)))
     ELSE {})

\* C10: the keys of C.presets are exactly the keys declared on C, on
\* C.backbone_cls and, recursively, on every known subclass of C and its
\* backbone class; no key appears twice.
C10_PresetsIsUnion ==
    result.op = "presets" =>
        /\ Keys(result.value) =
              UNION {DeclaredKeys(x) : x \in {result.args.cls}
                                             \cup KnownSubclasses(result.args.cls)}
        /\ Cardinality(Keys(result.value)) = Len(result.value)

\* C10 witness: Classifier.presets with MyBertClassifier registered: its keys
\* come from the class's subclasses and their backbones, "bert_tiny_en" and
\* "bert_base_en" being contributed more than once.
C10_Witness ==
    /\ result.op = "presets"
    /\ result.args.cls = "Classifier"
    /\ "MyBertClassifier" \in registered
    /\ {"my_bert_en", "bert_tiny_en", "bert_base_en", "bert_tiny_en_sst2"}
          \subseteq Keys(result.value)
    /\ list_presets("Classifier") = <<>>

\* the last call is a from_preset that took the backbone path to its end
BackbonePathReturned ==
    /\ result.op = "from_preset"
    /\ check_config_class(result.args.preset) \in BackboneClasses
    /\ result.status = "return"

\* the class the backbone path resolves to: the calling class when it expects
\* the preset's backbone, else its one known subclass that does
ResolvedClass ==
    LET c == result.args.cls
        b == check_config_class(result.args.preset)
    IN IF backbone_cls(c) = b THEN c
       ELSE CHOOSE x \in Qualifying(c, b) : TRUE

\* the config files the call loaded from the preset
LoadedFiles == {result.loads[i].config_file : i \in 1..Len(result.loads)}

\* C11: in the backbone path an explicit `preprocessor` argument is the
\* preprocessor of the returned instance and no tokenizer is loaded; without
\* the argument the tokenizer of the preset is loaded and wrapped by the
\* preprocessor_cls of the resolved class. The instance is built from the
\* loaded backbone (dtype forwarded to it), that preprocessor and the
\* remaining keyword arguments.
C11_PreprocessorPrecedence ==
    BackbonePathReturned =>
        LET a == result.args
            t == result.value
        IN /\ t.kind = "task"
           /\ IF a.kwargs.preprocessor # <<>>
              THEN /\ t.preprocessor = a.kwargs.preprocessor[1]
                   /\ "tokenizer.json" \notin LoadedFiles
              ELSE /\ t.preprocessor.kind = "layer"
                   /\ t.preprocessor.cls = preprocessor_cls(ResolvedClass)
                   /\ t.preprocessor.config.tokenizer = Tokenizer(a.preset)
                   /\ "tokenizer.json" \in LoadedFiles
           /\ t.backbone.cls = check_config_class(a.preset)
           /\ t.backbone.config.preset = a.preset
           /\ t.backbone.config.dtype =
                 (IF a.kwargs.dtype # <<>> THEN a.kwargs.dtype[1] ELSE "float32")
           /\ t.backbone.weights = (IF a.load_weights THEN a.preset ELSE "random")
           /\ a.kwargs.name # <<>> => t.name = a.kwargs.name[1]

\* C11 witness: RobertaClassifier.from_preset("xlm_roberta_base",
\* preprocessor=None) returned an instance without preprocessor and loaded no
\* tokenizer.
C11_Witness ==
    /\ BackbonePathReturned
    /\ result.args.cls = "RobertaClassifier"
    /\ result.args.kwargs.preprocessor = <<NoneObj>>
    /\ result.value.preprocessor = NoneObj
    /\ LoadedFiles = {"config.json"}

\* C11 witness without the argument: the tokenizer was wrapped by the
\* preprocessor class of the resolved class, not of the calling class.
C11_WitnessLoaded ==
    /\ BackbonePathReturned
    /\ result.args.cls = "RobertaClassifier"
    /\ result.args.kwargs.preprocessor = <<>>
    /\ result.value.preprocessor.cls = "XLMRobertaPreprocessor"
    /\ preprocessor_cls(result.args.cls) = "RobertaPreprocessor"
    /\ LoadedFiles = {"config.json", "tokenizer.json"}

(***************************************************************************)
(* Properties of compile, preprocess_samples and the config round trip,    *)
(* checked under SpecTask.                                                 *)
(***************************************************************************)
\* the last call is compile, on a task with an activation attribute, with a
\* single SparseCategoricalCrossentropy loss
SingleLossCompile ==
    /\ result.op = "compile"
    /\ task.activation # <<>>
    /\ result.args.loss.kind = "SparseCategoricalCrossentropy"

\* the call reached the compile of the base class with its loss
ReachedBaseCompile ==
    /\ result.status = "return"
    /\ Len(task.compiled) = 1
    /\ task.compiled[1].loss = result.args.loss

\* C6: with a single sparse categorical crossentropy loss, compile raises for
\* softmax with from_logits=True and for linear (None) with from_logits=False,
\* and does not raise for softmax with from_logits=False nor for linear with
\* from_logits=True.
C6_MismatchRaises ==
    SingleLossCompile =>
        LET from_logits == result.args.loss.from_logits
        IN /\ (task.activation = <<"softmax">> /\ from_logits) =>
                  Raises("loss expects logit output")
           /\ (task.activation = <<"None">> /\ ~from_logits) =>
                  Raises("loss expects softmax probability output")
           /\ (task.activation = <<"softmax">> /\ ~from_logits) =>
                  ReachedBaseCompile
           /\ (task.activation = <<"None">> /\ from_logits) =>
                  ReachedBaseCompile

\* C6 witness: a classifier with linear output refused a loss that expects
\* probabilities.
C6_Witness ==
    /\ SingleLossCompile
    /\ task.activation = <<"None">>
    /\ ~result.args.loss.from_logits
    /\ Raises("loss expects softmax probability output")

\* C6 witness of the other error: a softmax classifier refused a loss that
\* expects logits.
C6_WitnessSoftmax ==
    /\ SingleLossCompile
    /\ task.activation = <<"softmax">>
    /\ result.args.loss.from_logits
    /\ Raises("loss expects logit output")

\* the loss of the last compile is one the check does not look at
SkippedLoss ==
    \/ result.args.loss.kind \in {"dict", "list", "tuple"}
    \/ result.args.loss = NoneObj
    \/ result.args.loss = LossName("mean_squared_error")

\* C7: compile does not raise and reaches the compile of the base class
\* whenever the loss is a dict, list or tuple, the task has no activation
\* attribute, no loss is given, or the loss is not sparse categorical
\* crossentropy.
C7_CheckSkipped ==
    (result.op = "compile" /\ (SkippedLoss \/ task.activation = <<>>)) =>
        ReachedBaseCompile

\* C7 witness: a classifier with linear output compiled with a list holding a
\* loss that expects probabilities.
C7_Witness ==
    /\ result.op = "compile"
    /\ task.activation = <<"None">>
    /\ result.args.loss =
          Composite("list", <<SparseCategoricalCrossentropy(FALSE)>>)
    /\ ReachedBaseCompile

\* C7 witness without activation: a causal LM compiled with a loss that would
\* not fit a linear output.
C7_WitnessNoActivation ==
    /\ result.op = "compile"
    /\ task.activation = <<>>
    /\ result.args.loss = SparseCategoricalCrossentropy(FALSE)
    /\ ReachedBaseCompile

\* C8: preprocess_samples follows the preprocessor assigned last: without one
\* it returns x, y and sample_weight unchanged, with one it returns what that
\* preprocessor returns for them.
C8_FollowsAssignedPreprocessor ==
    result.op = "preprocess_samples" =>
        LET a == result.args
        IN IF task.preprocessor = NoneObj
           THEN result.value = <<a.x, a.y, a.sample_weight>>
           ELSE result.value =
                   CallPreprocessor(task.preprocessor, a.x, a.y, a.sample_weight)

\* C8 witness: after two assignments, the last one of None, the samples came
\* back unchanged.
C8_Witness ==
    /\ result.op = "preprocess_samples"
    /\ assignments >= 2
    /\ task.preprocessor = NoneObj
    /\ result.args.y # <<>>
    /\ result.value = <<result.args.x, result.args.y, result.args.sample_weight>>

\* C8 witness with a preprocessor assigned: the samples came back tokenized.
C8_WitnessAssigned ==
    /\ result.op = "preprocess_samples"
    /\ assignments >= 1
    /\ task.preprocessor \in UserPreprocessors
    /\ result.value[1].padded_to = task.preprocessor.config.sequence_length

\* the class and the configuration of a layer, None for None
ConfigOf(layer) ==
    IF layer.kind = "layer"
    THEN [class_name |-> layer.cls, config |-> layer.config]
    ELSE layer

\* C9: C.from_config(t.get_config()) for a task t of class C is an instance of
\* C, with a backbone and a preprocessor configured as those of t and with the
\* name of t.
C9_ConfigRoundTrip ==
    (result.op = "from_config" /\ result.args.cls = task.cls) =>
        /\ ReturnsInstanceOf(task.cls)
        /\ ConfigOf(result.value.backbone) = ConfigOf(task.backbone)
        /\ ConfigOf(result.value.preprocessor) = ConfigOf(task.preprocessor)
        /\ result.value.name = task.name

\* C9 witness: a task with a preprocessor was rebuilt from its config.
C9_Witness ==
    /\ result.op = "from_config"
    /\ result.args.cls = task.cls
    /\ task.preprocessor \in UserPreprocessors
    /\ result.args.config.preprocessor.kind = "dict"
    /\ result.value.preprocessor.kind = "layer"

\* C9 witness without preprocessor: the None of the config stayed None.
C9_WitnessUnset ==
    /\ result.op = "from_config"
    /\ result.args.cls = task.cls
    /\ task.preprocessor = NoneObj
    /\ result.value.preprocessor = NoneObj

====
